---- MODULE Spec2Model ----
(***************************************************************************)
(* Model of the adaptive time estimator                                    *)
(* (src/src/adaptive_time_estimator/adaptive_time_estimator.py): the task  *)
(* record store (a MongoDB collection, kept here as the sequence of its    *)
(* documents in insertion order), save_task, mark_complete, the similarity *)
(* search and predict_time.                                                *)
(*                                                                         *)
(* Numbers.  A similarity is a Python float in [-1, 1]; it is kept here in *)
(* hundredths (0.65 is 65).  The embeddings are integer vectors of norm 5, *)
(* so every cosine is an exact multiple of 0.04 and nothing is lost.       *)
(* A value that may be Python's None is kept as a sequence: <<>> is None   *)
(* and <<x>> is the value x.                                               *)
(*                                                                         *)
(* Fields of a document that no operation reads back (main_task, position, *)
(* created_date, time_allocation_date) are left out.                       *)
(***************************************************************************)
EXTENDS Integers, Sequences, FiniteSets, TLC

VARIABLES tasks, last, threads, calc, main_run, response, readers

vars == <<tasks, last, threads, calc, main_run, response, readers>>

----------------------------------------------------------------------------
(* Bounds of the model *)

\* documents in the store, sequential specification
MaxTasks == 2
\* predictions in one save_task call
MaxPreds == 2
\* documents in the store, search specification (more than top_k)
MaxHistory == 6
\* documents in the store, concurrent specification
MaxConcTasks == 2
\* request threads of the concurrent specification
NThreads == 2
\* documents in the store, concurrent predictions
MaxReadTasks == 1
\* predict_time calls in flight at once
NReaders == 2

----------------------------------------------------------------------------
(* Values *)

None == <<>>

Some(x) == <<x>>

Users == {"A", "B"}

Texts == {"a", "b", "c"}

\* actual_time as the caller of mark_complete / POST /complete supplies it
ActualTimes == {None, Some(10), Some(30)}

\* difficulty as the caller of predict_time supplies it (9 is out of range)
Difficulties == {4, 9}

\* datetime.now(): the model keeps only that a date was stamped
Now == Some(1)

Min(a, b) == IF a <= b THEN a ELSE b

----------------------------------------------------------------------------
(* Configuration, AdaptiveTimeEstimator.__init__ *)

\* a threshold no similarity reaches
threshold_unreachable == 65 + 65

\* a threshold that lets every similarity through
threshold_none == 65 - 65

\* self.threshold = 0.65, in hundredths
threshold == 65

\* self.top_k = 5
top_k == 5

\* ten minutes per difficulty level
cold_start_prediction_linear(difficulty) == difficulty * 10

\* self.difficulty_map.get(difficulty, 20)
cold_start_prediction(difficulty) ==
    CASE difficulty = 1 -> 10
      [] difficulty = 2 -> 15
      [] difficulty = 3 -> 20
      [] difficulty = 4 -> 30
      [] difficulty = 5 -> 45
      [] OTHER -> 20

----------------------------------------------------------------------------
(* Embedding and cosine similarity *)

\* self.model.encode(text).tolist(): deterministic, fixed dimension
text_to_vector(text) ==
    CASE text = "a" -> <<5, 0>>
      [] text = "b" -> <<4, 3>>
      [] text = "c" -> <<0, 5>>
      [] OTHER -> <<0, 0>>

Dot(v1, v2) == v1[1] * v2[1] + v1[2] * v2[2]

ISqrt(n) == CHOOSE r \in 0..n : r * r <= n /\ n < (r + 1) * (r + 1)

\* np.linalg.norm
Norm(v) == ISqrt(Dot(v, v))

\* in hundredths
cosine_similarity(v1, v2) ==
    IF Norm(v1) = 0 \/ Norm(v2) = 0
    THEN 0
    ELSE (Dot(v1, v2) * 100) \div (Norm(v1) * Norm(v2))

----------------------------------------------------------------------------
(* The store: find, insert_one, update_one *)

\* the query of find_similar_tasks without the status and actual_time tests
find_filter_any_status(task, user_id) ==
    task.user_id = user_id

\* the query of find_similar_tasks without the user_id test
find_filter_any_user(task, user_id) ==
    /\ task.status = "completed"
    /\ task.estimates.actual_time # None

\* the query of find_similar_tasks
find_filter(task, user_id) ==
    /\ task.user_id = user_id
    /\ task.status = "completed"
    /\ task.estimates.actual_time # None

\* self.tasks.find({...}): the matching documents, in store order
find(store, user_id) ==
    SelectSeq(store, LAMBDA task : find_filter(task, user_id))

\* the filter of mark_complete without the status test
update_filter_any_status(task, user_id, subtask_desc) ==
    /\ task.user_id = user_id
    /\ task.sub_task.description = subtask_desc

\* the filter of mark_complete
update_filter(task, user_id, subtask_desc) ==
    /\ task.user_id = user_id
    /\ task.sub_task.description = subtask_desc
    /\ task.status = "scheduled"

\* the document update_one picks: the first match in store order, 0 if none
matched_index(store, user_id, subtask_desc) ==
    LET hits == {i \in 1..Len(store) : update_filter(store[i], user_id, subtask_desc)}
    IN  IF hits = {} THEN 0 ELSE CHOOSE i \in hits : \A j \in hits : i <= j

\* the $set of mark_complete that also rewrites the estimate
set_fields_estimate(task, actual_time) ==
    [task EXCEPT !.estimates.actual_time = actual_time,
                 !.estimates.system_estimate =
                     IF actual_time = None THEN @ ELSE actual_time[1],
                 !.status = "completed",
                 !.completed_date = Now]

\* the $set of mark_complete
set_fields(task, actual_time) ==
    [task EXCEPT !.estimates.actual_time = actual_time,
                 !.status = "completed",
                 !.completed_date = Now]

\* self.tasks.update_one(filter, {"$set": ...}): one atomic step of the store
update_one(store, user_id, subtask_desc, actual_time) ==
    LET i == matched_index(store, user_id, subtask_desc)
    IN  IF i = 0
        THEN store
        ELSE [store EXCEPT ![i] = set_fields(store[i], actual_time)]

\* the document of save_task with the estimate copied into actual_time
new_doc_actual_set(pred, user_id) ==
    [user_id |-> user_id,
     sub_task |-> [description |-> pred.subtask_text,
                   vector |-> text_to_vector(pred.subtask_text),
                   category |-> "general"],
     estimates |-> [prediction_method |-> pred.method,
                    system_estimate |-> pred.predicted_time,
                    user_estimate |-> IF pred.user_estimate = None
                                      THEN pred.predicted_time
                                      ELSE pred.user_estimate[1],
                    actual_time |-> Some(pred.predicted_time),
                    confidence |-> pred.confidence],
     status |-> "scheduled",
     completed_date |-> None]

\* the document save_task builds for one prediction
new_doc(pred, user_id) ==
    [user_id |-> user_id,
     sub_task |-> [description |-> pred.subtask_text,
                   vector |-> text_to_vector(pred.subtask_text),
                   category |-> "general"],
     estimates |-> [prediction_method |-> pred.method,
                    system_estimate |-> pred.predicted_time,
                    user_estimate |-> IF pred.user_estimate = None
                                      THEN pred.predicted_time
                                      ELSE pred.user_estimate[1],
                    actual_time |-> None,
                    confidence |-> pred.confidence],
     status |-> "scheduled",
     completed_date |-> None]

RECURSIVE insert_all(_, _, _)
\* the loop of save_task: one insert_one per prediction, in order
insert_all(store, predictions, user_id) ==
    IF predictions = <<>>
    THEN store
    ELSE insert_all(Append(store, new_doc(Head(predictions), user_id)),
                    Tail(predictions), user_id)

----------------------------------------------------------------------------
(* Similarity search, find_similar_tasks *)

\* the entry appended to results for one document
match_of(task, new_vector) ==
    [task_description |-> task.sub_task.description,
     similarity |-> cosine_similarity(new_vector, task.sub_task.vector),
     actual_time |-> task.estimates.actual_time,
     category |-> task.sub_task.category]

\* x placed after every entry of the sorted s whose similarity is >= x's
sorted_insert(s, x) ==
    LET n == Cardinality({i \in 1..Len(s) : s[i].similarity >= x.similarity})
    IN  SubSeq(s, 1, n) \o <<x>> \o SubSeq(s, n + 1, Len(s))

\* the results left in the order of the cursor
sort_none(s) == s

RECURSIVE sort_desc(_)
\* results.sort(key=similarity, reverse=True): stable, descending
sort_desc(s) ==
    IF s = <<>>
    THEN <<>>
    ELSE sorted_insert(sort_desc(SubSeq(s, 1, Len(s) - 1)), s[Len(s)])

\* results[:self.top_k] forgotten
truncate_none(results) == results

\* results[:self.top_k]
truncate(results) == SubSeq(results, 1, Min(top_k, Len(results)))

\* if similarity >= threshold
passes(similarity) == similarity >= threshold

find_similar_tasks(store, text, user_id) ==
    LET new_vector == text_to_vector(text)
        completed  == find(store, user_id)
        all        == [i \in 1..Len(completed) |-> match_of(completed[i], new_vector)]
        results    == SelectSeq(all, LAMBDA m : passes(m.similarity))
    IN  IF completed = <<>>
        THEN <<>>
        ELSE truncate(sort_desc(results))

----------------------------------------------------------------------------
(* Prediction *)

RECURSIVE sum_similarity(_)
\* sum(t['similarity'] for t in similar_tasks)
sum_similarity(similar_tasks) ==
    IF similar_tasks = <<>>
    THEN 0
    ELSE Head(similar_tasks).similarity + sum_similarity(Tail(similar_tasks))

RECURSIVE sum_weighted(_)
\* sum(similarity * actual_time), the numerator of the weighted average
sum_weighted(similar_tasks) ==
    IF similar_tasks = <<>>
    THEN 0
    ELSE Head(similar_tasks).similarity * Head(similar_tasks).actual_time[1]
         + sum_weighted(Tail(similar_tasks))

\* num/den taken to the integer above it
round_above(num, den) == (num \div den) + 1

\* num/den cut to an integer, as int() would
round_down(num, den) == num \div den

\* Python's round() of num/den, den > 0: to nearest, a tie to the even integer.
\* The code rounds a float sum; the float differs from the exact quotient by
\* far less than the distance of any non-tie quotient to a half, so only at an
\* exact tie can float rounding pick the other neighbour.
round_half_even(num, den) ==
    LET q == num \div den
        r == num % den
    IN  IF 2 * r < den THEN q
        ELSE IF 2 * r > den THEN q + 1
        ELSE IF q % 2 = 0 THEN q ELSE q + 1

\* warm_start_prediction: [raised, value]; the sum of (similarity / total_sim)
\* * actual_time is sum_weighted / total_sim
warm_start_prediction(similar_tasks) ==
    LET total_sim == sum_similarity(similar_tasks)
    IN  IF similar_tasks = <<>>
        THEN [raised |-> "", value |-> None]
        ELSE IF total_sim = 0
        THEN [raised |-> "ZeroDivisionError", value |-> None]
        ELSE IF \E i \in 1..Len(similar_tasks) : similar_tasks[i].actual_time = None
        THEN [raised |-> "TypeError", value |-> None]
        ELSE [raised |-> "",
              value |-> Some(round_half_even(sum_weighted(similar_tasks), total_sim))]

\* the collection after self.tasks.find(query) with the matches kept in a
\* cache document
find_effect_cached(store, similar) ==
    IF similar = <<>> THEN store
    ELSE Append(store, [store[1] EXCEPT !.status = "cache"])

\* the collection after self.tasks.find(query) and the loop over its cursor:
\* find_similar_tasks issues no insert, update or delete
find_effect(store, similar) == store

\* what predict_time gives when an exception leaves it
raise(error) ==
    [raised |-> error, method |-> "", predicted_time |-> None,
     confidence |-> "", similar_tasks |-> <<>>]

\* the warm branch returning the cold branch's confidence
warm_result_low(similar) ==
    LET time == warm_start_prediction(similar)
    IN  IF time.raised # ""
        THEN raise(time.raised)
        ELSE [raised |-> "", method |-> "warm_start", predicted_time |-> time.value,
              confidence |-> "LOW", similar_tasks |-> similar]

\* the branch `if similar:` of predict_time
warm_result(similar) ==
    LET time == warm_start_prediction(similar)
    IN  IF time.raised # ""
        THEN raise(time.raised)
        ELSE [raised |-> "", method |-> "warm_start", predicted_time |-> time.value,
              confidence |-> "HIGH", similar_tasks |-> similar]

\* the branch `else:` of predict_time
cold_result(difficulty) ==
    [raised |-> "", method |-> "cold_start",
     predicted_time |-> Some(cold_start_prediction(difficulty)),
     confidence |-> "LOW", similar_tasks |-> <<>>]

\* predict_time; store_ok is whether the store answers the find query: pymongo
\* raises when it does not, and nothing between find and the caller catches it
predict_time(store, subtask_text, user_id, difficulty, store_ok) ==
    IF ~store_ok
    THEN raise("PyMongoError")
    ELSE LET similar == find_similar_tasks(store, subtask_text, user_id)
         IN  IF similar # <<>>
             THEN warm_result(similar)
             ELSE cold_result(difficulty)

----------------------------------------------------------------------------
(* Scoring functions, src/src/mcdm_calculator.py *)

\* calculate_urgency_score with the first threshold exclusive
calculate_urgency_score_strict(days_left) ==
    IF days_left < 1 THEN 100
    ELSE IF days_left <= 3 THEN 80
    ELSE IF days_left <= 7 THEN 60
    ELSE IF days_left <= 14 THEN 40
    ELSE 20

calculate_urgency_score(days_left) ==
    IF days_left <= 1 THEN 100
    ELSE IF days_left <= 3 THEN 80
    ELSE IF days_left <= 7 THEN 60
    ELSE IF days_left <= 14 THEN 40
    ELSE 20

\* raw_impact = credits * (weight_percentage / 100), kept in hundredths; the
\* float product and the exact one fall in the same branch, and int() of
\* raw_impact * 50 is the same, for every credits in 1..4 and weight in 0..100
raw_impact(credits, weight_percentage) == credits * weight_percentage

\* calculate_impact_score with the last two branches in one: the formula
\* for everything under 0.5
calculate_impact_score_formula(credits, weight_percentage) ==
    LET raw == raw_impact(credits, weight_percentage)
    IN  IF raw >= 200 THEN 100
        ELSE IF raw >= 150 THEN 90
        ELSE IF raw >= 100 THEN 75
        ELSE IF raw >= 50 THEN 50
        ELSE (raw * 50) \div 100

\* calculate_impact_score with the formula scaled to reach the next branch
calculate_impact_score_scaled(credits, weight_percentage) ==
    LET raw == raw_impact(credits, weight_percentage)
    IN  IF raw >= 200 THEN 100
        ELSE IF raw >= 150 THEN 90
        ELSE IF raw >= 100 THEN 75
        ELSE IF raw >= 50 THEN 50
        ELSE IF raw < 20 THEN 10
        ELSE (raw * 150) \div 100

calculate_impact_score(credits, weight_percentage) ==
    LET raw == raw_impact(credits, weight_percentage)
    IN  IF raw >= 200 THEN 100
        ELSE IF raw >= 150 THEN 90
        ELSE IF raw >= 100 THEN 75
        ELSE IF raw >= 50 THEN 50
        ELSE IF raw < 20 THEN 10
        ELSE (raw * 50) \div 100

\* the rating spread over twice the scale
calculate_difficulty_score_wide(difficulty_rating) == difficulty_rating * 40

\* difficulty_rating * 20
calculate_difficulty_score(difficulty_rating) == difficulty_rating * 20

\* the weighted sum with the weights of urgency and impact exchanged
calculate_final_score_swapped(urgency, impact, difficulty) ==
    (3 * urgency) + (5 * impact) + (2 * difficulty)

\* (urgency * 0.50) + (impact * 0.30) + (difficulty * 0.20), kept in tenths.
\* The float sum differs from the exact one by less than 1e-13 on many
\* inputs; for every score the three functions above can give it stays on
\* the same side of 40 and 70 and inside [17, 100] as the exact sum.
calculate_final_score(urgency, impact, difficulty) ==
    (5 * urgency) + (3 * impact) + (2 * difficulty)

\* get_priority_label with the first threshold exclusive
get_priority_label_strict(final_score) ==
    IF final_score > 700 THEN "High"
    ELSE IF final_score >= 400 THEN "Medium"
    ELSE "Low"

\* get_priority_label(final_score), final_score in tenths
get_priority_label(final_score) ==
    IF final_score >= 700 THEN "High"
    ELSE IF final_score >= 400 THEN "Medium"
    ELSE "Low"

\* validate_mcdm_calculation: the tuple it returns
validate_mcdm_calculation(days_left, credits, weight_percentage, difficulty_rating) ==
    LET urgency == calculate_urgency_score(days_left)
        impact == calculate_impact_score(credits, weight_percentage)
        difficulty == calculate_difficulty_score(difficulty_rating)
        final == calculate_final_score(urgency, impact, difficulty)
        priority == get_priority_label(final)
    IN  <<urgency, impact, difficulty, final, priority>>

----------------------------------------------------------------------------
(* Python values where their kind decides what happens: an int cannot be   *)
(* unpacked, a tuple of two can; a call binds its arguments to the         *)
(* parameters of the function or raises TypeError.                         *)

PyInt(n) == [kind |-> "int", items |-> <<n>>]

PyTuple(items) == [kind |-> "tuple", items |-> items]

\* a, b = value
unpack2(value) ==
    IF value.kind # "tuple" THEN [raised |-> "TypeError", items |-> <<>>]
    ELSE IF Len(value.items) # 2 THEN [raised |-> "ValueError", items |-> <<>>]
    ELSE [raised |-> "", items |-> value.items]

\* the parameters of predict_time after self
predict_time_params == <<"subtask_text", "user_id", "difficulty">>

\* whether a call with n positional arguments and these keyword arguments
\* binds to predict_time's parameters
binds(n, keywords) ==
    /\ n <= Len(predict_time_params)
    /\ \A k \in keywords :
           \E i \in (n + 1)..Len(predict_time_params) : predict_time_params[i] = k
    /\ \A i \in (n + 1)..Len(predict_time_params) : predict_time_params[i] \in keywords

\* a value used as a key of difficulty_map: None is no key of it, and is
\* given to the table as 0, which is no key either
as_key(value) == IF value = None THEN 0 ELSE value[1]

----------------------------------------------------------------------------
(* Difficulty prediction, difficulty_predictor.py, and the hybrid decision *)
(* of main.  loaded is whether __init__ could load the model; an inference *)
(* is what the classifier does on the text: it throws, or gives a class    *)
(* and max(probabilities) * 100 as confidence.                             *)

\* task_description.strip()
strip(text) == IF text = " " THEN "" ELSE text

\* self.class_to_score.get(prediction_class, fallback)
class_to_score(prediction_class, fallback) ==
    CASE prediction_class = 0 -> 1
      [] prediction_class = 1 -> 3
      [] prediction_class = 2 -> 5
      [] OTHER -> fallback

\* predict_difficulty(task_description, fallback=3): the value it returns
predict_difficulty(loaded, task_description, inference, fallback) ==
    IF ~loaded \/ strip(task_description) = ""
    THEN PyInt(fallback)
    ELSE IF inference.throws
    THEN PyInt(fallback)
    ELSE PyInt(class_to_score(inference.class, fallback))

\* the if/else of main after the unpacking
hybrid_decision(ml_difficulty, ml_confidence, ai_suggested_difficulty) ==
    IF ml_confidence < 50
    THEN [difficulty_rating |-> Some(ai_suggested_difficulty),
          difficulty_method |-> "AI Suggested"]
    ELSE [difficulty_rating |-> Some(ml_difficulty),
          difficulty_method |-> "ML Prediction (High Confidence)"]

\* main, step 2 and the hybrid decision; an exception is caught by main's
\* last except, which prints it and ends the run with no difficulty rating
main_difficulty(loaded, task_description, inference, ai_suggested_difficulty) ==
    LET returned == predict_difficulty(loaded, task_description, inference, 3)
        unpacked == unpack2(returned)
    IN  IF unpacked.raised # ""
        THEN [returned |-> returned, raised |-> unpacked.raised,
              difficulty_rating |-> None, difficulty_method |-> ""]
        ELSE LET d == hybrid_decision(unpacked.items[1], unpacked.items[2],
                                      ai_suggested_difficulty)
             IN  [returned |-> returned, raised |-> "",
                  difficulty_rating |-> d.difficulty_rating,
                  difficulty_method |-> d.difficulty_method]

----------------------------------------------------------------------------
(* HTTP interface, api.py.  What a handler returns is [status, error,      *)
(* predictions, total_time]; every handler catches Exception and answers   *)
(* 500 with the message.                                                   *)

answer(status, error, predictions, total_time) ==
    [status |-> status, error |-> error, predictions |-> predictions,
     total_time |-> total_time]

\* estimator.predict_time(...) as a handler calls it: positional arguments and
\* keyword names
call_predict_time(store, positional, keywords) ==
    IF ~binds(Len(positional), keywords)
    THEN raise("TypeError")
    ELSE predict_time(store, positional[1], positional[2], as_key(positional[3]),
                      TRUE)

\* POST /predict
predict(store, data) ==
    IF data.subtask = "" THEN answer(400, "Missing 'subtask' field", <<>>, 0)
    ELSE IF data.user_id = "" THEN answer(400, "Missing 'user_id' field", <<>>, 0)
    ELSE IF data.difficulty = None \/ data.difficulty = Some(0)
    THEN answer(400, "Missing 'difficulty' field", <<>>, 0)
    ELSE LET prediction == call_predict_time(store, <<data.subtask, data.user_id>>,
                                             {"ai_suggested_time"})
         IN  IF prediction.raised # ""
             THEN answer(500, prediction.raised, <<>>, 0)
             ELSE answer(200, "", <<prediction>>, 0)

RECURSIVE batch_loop(_, _, _, _, _)
\* the loop of predict_batch over subtasks[i..]; a subtask that is a string
\* has no get; total_time += pred.get('predicted_time', 0)
batch_loop(store, user_id, subtasks, predictions, total_time) ==
    IF subtasks = <<>>
    THEN answer(200, "", predictions, total_time)
    ELSE LET subtask_data == Head(subtasks)
         IN  IF subtask_data.kind = "str"
             THEN answer(500, "AttributeError", <<>>, 0)
             ELSE IF subtask_data.name = ""
             THEN batch_loop(store, user_id, Tail(subtasks), predictions, total_time)
             ELSE LET pred == call_predict_time(
                                  store,
                                  <<subtask_data.name, user_id,
                                    subtask_data.ai_suggested_time>>, {})
                  IN  IF pred.raised # ""
                      THEN answer(500, pred.raised, <<>>, 0)
                      ELSE batch_loop(store, user_id, Tail(subtasks),
                                      Append(predictions, pred),
                                      total_time + pred.predicted_time[1])

\* POST /predict-batch; difficulty = main_task.get('difficulty', 3) is read
\* and not used
predict_batch(store, data) ==
    LET difficulty == IF data.main_task.difficulty = None
                      THEN 3
                      ELSE data.main_task.difficulty[1]
    IN  batch_loop(store, data.user_id, data.subtasks, <<>>, 0)

----------------------------------------------------------------------------
(* Inputs of the calls *)

\* days_left runs over -DaysRange..DaysRange
DaysRange == 20

\* credits: Module credits (1-4)
MaxCredits == 4

\* weight_percentage: a percentage
MaxWeight == 100

\* the similarities and times of the matches given to warm_start_prediction
\* on its own, and how many of them
MatchSimilarities == {40, 80, 100}

MatchTimes == {10, 20}

MaxMatches == 2

MatchLists ==
    UNION {[1..n -> [similarity : MatchSimilarities,
                     actual_time : {Some(t) : t \in MatchTimes}]] :
              n \in 1..MaxMatches}

\* the runs of main's difficulty step
Descriptions == {"", " ", "essay"}

Confidences == {34, 49, 50, 51, 100}

Inferences == [throws : BOOLEAN, class : 0..2, confidence : Confidences]

AiSuggested == 1..5

NoRun ==
    [done |-> FALSE, loaded |-> FALSE, task_description |-> "",
     inference |-> [throws |-> FALSE, class |-> 0, confidence |-> 34],
     ai_suggested_difficulty |-> 3,
     result |-> [returned |-> PyInt(0), raised |-> "", difficulty_rating |-> None,
                 difficulty_method |-> ""]]

\* the requests of the HTTP interface
PredictRequests ==
    [subtask : {"", "a", "c"}, user_id : {"", "A"},
     difficulty : {None, Some(0), Some(3), Some(5)}]

\* subtasks per predict-batch request
MaxBatch == 2

\* a subtask of a batch is a string, as in the handler's docstring and in
\* test_api.py, or an object with name and ai_suggested_time, as the loop
\* reads it
BatchItems ==
    {[kind |-> "str", name |-> "a", ai_suggested_time |-> None]}
        \cup [kind : {"dict"}, name : {"a"}, ai_suggested_time : {None, Some(5)}]

\* an object without a name, which the loop skips
Nameless == [kind |-> "dict", name |-> "", ai_suggested_time |-> None]

\* the subtasks of a request: every list of items, and lists with a nameless
\* object in front
BatchLists ==
    LET lists == UNION {[1..n -> BatchItems] : n \in 1..MaxBatch}
    IN  lists \cup {<<Nameless>>} \cup {<<Nameless>> \o l : l \in [1..1 -> BatchItems]}

BatchRequests ==
    [user_id : {"A"},
     main_task : [difficulty : {None, Some(3), Some(5)}],
     subtasks : BatchLists]

NoRequest ==
    [subtask |-> "", user_id |-> "", difficulty |-> None,
     main_task |-> [difficulty |-> None], subtasks |-> <<>>]

NoResponse == [route |-> "", data |-> NoRequest, ret |-> answer(0, "", <<>>, 0)]

\* documents in the store, service specification
MaxServiceTasks == 1

\* difficulty_map has the keys 1..MaxDifficulty
MaxDifficulty == 5

\* no function applied yet
NoCalc ==
    [op |-> "", args |-> <<>>, matches |-> <<>>, out |-> None, raised |-> "",
     tuple |-> <<>>]

\* difficulty_rating: Difficulty rating (1-5)
MaxRating == 5

\* final scores given to get_priority_label on its own, in tenths: 0.0 .. 100.0
MaxFinalScore == 1000

\* the arguments of validate_mcdm_calculation
ValidateInputs ==
    (-DaysRange..DaysRange) \X (1..MaxCredits) \X (0..MaxWeight) \X (1..MaxRating)

\* what a caller of save_task passes with a subtask's text: a prediction as
\* predict_time's cold branch gives it, or a warm one with a user_estimate
ColdKind ==
    [method |-> "cold_start", predicted_time |-> 20, confidence |-> "LOW",
     user_estimate |-> None]

WarmKind ==
    [method |-> "warm_start", predicted_time |-> 10, confidence |-> "HIGH",
     user_estimate |-> Some(15)]

\* the calls of the second user are fewer: one text, one time, warm predictions
TextsOf(user_id) == IF user_id = "A" THEN Texts ELSE {"a"}

TimesOf(user_id) == IF user_id = "A" THEN ActualTimes ELSE {Some(10)}

KindsOf(user_id) == IF user_id = "A" THEN {ColdKind} ELSE {WarmKind}

Preds(texts, kinds) ==
    {[subtask_text |-> x, method |-> k.method, predicted_time |-> k.predicted_time,
      confidence |-> k.confidence, user_estimate |-> k.user_estimate] :
        x \in texts, k \in kinds}

\* the predictions lists of 1..n entries
Predictions(texts, kinds, n) ==
    UNION {[1..len -> Preds(texts, kinds)] : len \in 1..n}

\* no value returned (save_task, mark_complete), or none yet
NoReturn == raise("")

NoCall ==
    [op |-> "", user_id |-> "", text |-> "", predictions |-> <<>>,
     difficulty |-> 0, actual_time |-> None, store_ok |-> TRUE, matched |-> 0,
     ret |-> NoReturn]

Threads == 1..NThreads

Readers == 1..NReaders

\* a reader with no predict_time call in flight
IdleReader ==
    [pc |-> "idle", text |-> "", user_id |-> "", difficulty |-> 0, similar |-> <<>>]

Idle ==
    [pc |-> "idle", user_id |-> "", text |-> "", actual_time |-> None, matched |-> 0]

----------------------------------------------------------------------------
(* State machine.  tasks is the collection; last is the most recent call   *)
(* that ran to its end, with its arguments and what it returned (matched   *)
(* is the position of the document update_one modified, 0 for none);       *)
(* threads holds the mark_complete requests in flight, each before or      *)
(* after its one store operation; calc is the last application of a        *)
(* scoring function or of warm_start_prediction on its own; main_run is    *)
(* the last run of main's difficulty step; response is the last answer of  *)
(* the HTTP interface.                                                     *)

Init ==
    /\ tasks = <<>>
    /\ last = NoCall
    /\ threads = [th \in Threads |-> Idle]
    /\ calc = NoCalc
    /\ main_run = NoRun
    /\ response = NoResponse
    /\ readers = [r \in Readers |-> IdleReader]

\* save_task(main_task, predictions, user_id); cap bounds the collection
SaveTask(predictions, user_id, cap) ==
    /\ Len(tasks) + Len(predictions) <= cap
    /\ tasks' = insert_all(tasks, predictions, user_id)
    /\ last' = [NoCall EXCEPT !.op = "save_task", !.user_id = user_id,
                              !.predictions = predictions]
    /\ UNCHANGED <<threads, calc, main_run, response, readers>>

\* mark_complete(subtask_desc, user_id, actual_time), run alone
MarkComplete(subtask_desc, user_id, actual_time) ==
    /\ tasks' = update_one(tasks, user_id, subtask_desc, actual_time)
    /\ last' = [NoCall EXCEPT !.op = "mark_complete", !.user_id = user_id,
                              !.text = subtask_desc, !.actual_time = actual_time,
                              !.matched = matched_index(tasks, user_id, subtask_desc)]
    /\ UNCHANGED <<threads, calc, main_run, response, readers>>

\* predict_time(subtask_text, user_id, difficulty)
PredictTime(subtask_text, user_id, difficulty, store_ok) ==
    /\ last' = [NoCall EXCEPT !.op = "predict_time", !.user_id = user_id,
                              !.text = subtask_text, !.difficulty = difficulty,
                              !.store_ok = store_ok,
                              !.ret = predict_time(tasks, subtask_text, user_id,
                                                   difficulty, store_ok)]
    /\ UNCHANGED <<tasks, threads, calc, main_run, response, readers>>

\* a request thread enters mark_complete
CallMarkComplete(th, subtask_desc, user_id, actual_time) ==
    /\ threads[th].pc = "idle"
    /\ threads' = [threads EXCEPT ![th] =
                       [pc |-> "update_one", user_id |-> user_id,
                        text |-> subtask_desc, actual_time |-> actual_time,
                        matched |-> 0]]
    /\ UNCHANGED <<tasks, last, calc, main_run, response, readers>>

\* the thread's update_one reaches the store, which applies it atomically
StoreUpdateOne(th) ==
    LET c == threads[th]
    IN  /\ c.pc = "update_one"
        /\ tasks' = update_one(tasks, c.user_id, c.text, c.actual_time)
        /\ threads' = [threads EXCEPT ![th].pc = "returned",
                                      ![th].matched =
                                          matched_index(tasks, c.user_id, c.text)]
        /\ UNCHANGED <<last, calc, main_run, response, readers>>

\* the response is sent and the thread is free again
ReturnMarkComplete(th) ==
    /\ threads[th].pc = "returned"
    /\ threads' = [threads EXCEPT ![th] = Idle]
    /\ UNCHANGED <<tasks, last, calc, main_run, response, readers>>

\* a predict_time call starts in reader r
CallPredictTime(r, subtask_text, user_id, difficulty) ==
    /\ readers[r].pc = "idle"
    /\ readers' = [readers EXCEPT ![r] = [pc |-> "called", text |-> subtask_text,
                                          user_id |-> user_id,
                                          difficulty |-> difficulty,
                                          similar |-> <<>>]]
    /\ UNCHANGED <<tasks, last, threads, calc, main_run, response>>

\* reader r runs find_similar_tasks: the one read of the store in predict_time
SearchStore(r) ==
    /\ readers[r].pc = "called"
    /\ LET similar == find_similar_tasks(tasks, readers[r].text, readers[r].user_id)
       IN  /\ readers' = [readers EXCEPT ![r].pc = "searched", ![r].similar = similar]
           /\ tasks' = find_effect(tasks, similar)
    /\ UNCHANGED <<last, threads, calc, main_run, response>>

\* reader r takes the branch on its matches and returns
ReturnPredictTime(r) ==
    /\ readers[r].pc = "searched"
    /\ last' = [NoCall EXCEPT !.op = "predict_time", !.user_id = readers[r].user_id,
                              !.text = readers[r].text,
                              !.difficulty = readers[r].difficulty,
                              !.ret = IF readers[r].similar # <<>>
                                      THEN warm_result(readers[r].similar)
                                      ELSE cold_result(readers[r].difficulty)]
    /\ readers' = [readers EXCEPT ![r] = IdleReader]
    /\ UNCHANGED <<tasks, threads, calc, main_run, response>>

\* calculate_urgency_score(days_left)
ApplyUrgency(days_left) ==
    /\ calc' = [NoCalc EXCEPT !.op = "calculate_urgency_score",
                              !.args = <<days_left>>,
                              !.out = Some(calculate_urgency_score(days_left))]
    /\ UNCHANGED <<tasks, last, threads, main_run, response, readers>>

\* calculate_impact_score(credits, weight_percentage)
ApplyImpact(credits, weight_percentage) ==
    /\ calc' = [NoCalc EXCEPT !.op = "calculate_impact_score",
                              !.args = <<credits, weight_percentage>>,
                              !.out = Some(calculate_impact_score(
                                               credits, weight_percentage))]
    /\ UNCHANGED <<tasks, last, threads, main_run, response, readers>>

\* validate_mcdm_calculation on the arguments waiting in calc
ApplyValidate ==
    /\ calc.op = ""
    /\ Len(calc.args) = 4
    /\ calc' = [calc EXCEPT !.op = "validate_mcdm_calculation",
                            !.tuple = validate_mcdm_calculation(
                                          calc.args[1], calc.args[2],
                                          calc.args[3], calc.args[4])]
    /\ UNCHANGED <<tasks, last, threads, main_run, response, readers>>

\* get_priority_label on the final score waiting in calc
ApplyLabel ==
    /\ calc.op = ""
    /\ Len(calc.args) = 1
    /\ calc' = [calc EXCEPT !.op = "get_priority_label",
                            !.tuple = <<get_priority_label(calc.args[1])>>]
    /\ UNCHANGED <<tasks, last, threads, main_run, response, readers>>

\* warm_start_prediction(similar_tasks)
ApplyWarmStart(similar_tasks) ==
    /\ LET time == warm_start_prediction(similar_tasks)
       IN  calc' = [NoCalc EXCEPT !.op = "warm_start_prediction",
                                  !.matches = similar_tasks,
                                  !.out = time.value, !.raised = time.raised]
    /\ UNCHANGED <<tasks, last, threads, main_run, response, readers>>

\* one run of main up to the difficulty rating: predictor was constructed
\* (loaded or not), extracted_data holds the description and the AI's
\* suggestion
MainDifficultyStep(loaded, task_description, inference, ai_suggested_difficulty) ==
    /\ main_run' = [done |-> TRUE, loaded |-> loaded,
                    task_description |-> task_description,
                    inference |-> inference,
                    ai_suggested_difficulty |-> ai_suggested_difficulty,
                    result |-> main_difficulty(loaded, task_description, inference,
                                               ai_suggested_difficulty)]
    /\ UNCHANGED <<tasks, last, threads, calc, response, readers>>

\* POST /predict with the JSON body data
PostPredict(data) ==
    /\ response' = [route |-> "/predict", data |-> data, ret |-> predict(tasks, data)]
    /\ UNCHANGED <<tasks, last, threads, calc, main_run, readers>>

\* POST /predict-batch with the JSON body data
PostPredictBatch(data) ==
    /\ response' = [route |-> "/predict-batch", data |-> data,
                    ret |-> predict_batch(tasks, data)]
    /\ UNCHANGED <<tasks, last, threads, calc, main_run, readers>>

(* Sequential use: every call runs to its end before the next *)
Next ==
    \/ \E u \in Users :
           \E p \in Predictions(TextsOf(u), KindsOf(u), MaxPreds) :
               SaveTask(p, u, MaxTasks)
    \/ \E u \in Users :
           \E x \in TextsOf(u), t \in TimesOf(u) : MarkComplete(x, u, t)
    \/ \E u \in Users, x \in Texts, d \in Difficulties : PredictTime(x, u, d, TRUE)

Spec == Init /\ [][Next]_vars

(* Sequential use with a store that may fail to answer a find *)
NextFault ==
    \/ Next
    \/ \E u \in Users, x \in Texts, d \in Difficulties : PredictTime(x, u, d, FALSE)

SpecFault == Init /\ [][NextFault]_vars

(* One user's history growing past top_k *)
HistoryTexts == {"a", "b"}

HistoryTimes == {Some(10)}

NextSearch ==
    \/ \E p \in Predictions(HistoryTexts, {ColdKind}, 1) : SaveTask(p, "A", MaxHistory)
    \/ \E x \in HistoryTexts, t \in HistoryTimes : MarkComplete(x, "A", t)
    \/ \E x \in Texts : PredictTime(x, "A", 4, TRUE)

SpecSearch == Init /\ [][NextSearch]_vars

(* Concurrent mark_complete requests on one user's documents *)
NextConc ==
    \/ \E p \in Predictions({"a"}, {ColdKind}, 1) : SaveTask(p, "A", MaxConcTasks)
    \/ \E th \in Threads, t \in ActualTimes : CallMarkComplete(th, "a", "A", t)
    \/ \E th \in Threads : StoreUpdateOne(th)
    \/ \E th \in Threads : ReturnMarkComplete(th)

SpecConc == Init /\ [][NextConc]_vars

(* Concurrent predict_time calls of two users; the store is written only   *)
(* while no prediction is in flight                                        *)
NoReaderInFlight == \A r \in Readers : readers[r].pc = "idle"

NextRead ==
    \/ /\ NoReaderInFlight
       /\ \E u \in Users :
              \E p \in Predictions({"a"}, {ColdKind}, 1) : SaveTask(p, u, MaxReadTasks)
    \/ /\ NoReaderInFlight
       /\ \E u \in Users : MarkComplete("a", u, Some(10))
    \/ \E r \in Readers, u \in Users : CallPredictTime(r, "a", u, 4)
    \/ \E r \in Readers : SearchStore(r)
    \/ \E r \in Readers : ReturnPredictTime(r)

SpecRead == Init /\ [][NextRead]_vars

(* The scoring functions and the weighted average, each applied on its own *)
NextScoring ==
    \/ \E days_left \in -DaysRange..DaysRange : ApplyUrgency(days_left)
    \/ \E credits \in 1..MaxCredits, weight_percentage \in 0..MaxWeight :
           ApplyImpact(credits, weight_percentage)
    \/ \E similar_tasks \in MatchLists : ApplyWarmStart(similar_tasks)

SpecScoring == Init /\ [][NextScoring]_vars

(* validate_mcdm_calculation and get_priority_label, each applied once to   *)
(* arguments drawn at the start                                            *)
InitValidate ==
    /\ tasks = <<>>
    /\ last = NoCall
    /\ threads = [th \in Threads |-> Idle]
    /\ main_run = NoRun
    /\ response = NoResponse
    /\ readers = [r \in Readers |-> IdleReader]
    /\ \/ \E input \in ValidateInputs : calc = [NoCalc EXCEPT !.args = input]
       \/ \E final_score \in 0..MaxFinalScore :
              calc = [NoCalc EXCEPT !.args = <<final_score>>]

NextValidate ==
    \/ ApplyValidate
    \/ ApplyLabel

SpecValidate == InitValidate /\ [][NextValidate]_vars

(* Runs of main's difficulty step *)
NextMain ==
    \E loaded \in BOOLEAN, task_description \in Descriptions,
       inference \in Inferences, ai_suggested_difficulty \in AiSuggested :
        MainDifficultyStep(loaded, task_description, inference,
                           ai_suggested_difficulty)

SpecMain == Init /\ [][NextMain]_vars

(* One user's estimator called with every difficulty in and around the     *)
(* table                                                                   *)
TableDifficulties == 0..(MaxDifficulty + 1)

NextCold ==
    \/ \E p \in Predictions({"a", "c"}, {ColdKind}, 1) : SaveTask(p, "A", MaxTasks)
    \/ \E x \in {"a", "c"}, t \in {Some(10)} : MarkComplete(x, "A", t)
    \/ \E x \in {"a", "c"}, d \in TableDifficulties : PredictTime(x, "A", d, TRUE)

SpecCold == Init /\ [][NextCold]_vars

(* The service of one user through the HTTP interface *)
NextService ==
    \/ \E p \in Predictions({"a"}, {ColdKind}, 1) : SaveTask(p, "A", MaxServiceTasks)
    \/ \E t \in {Some(10)} : MarkComplete("a", "A", t)
    \/ \E data \in PredictRequests : PostPredict(data)
    \/ \E data \in BatchRequests : PostPredictBatch(data)

SpecService == Init /\ [][NextService]_vars

----------------------------------------------------------------------------
(* Claims.  A call that ran to its end is in last together with the store  *)
(* it ran on: predict_time writes nothing and every other call replaces    *)
(* last.  As predict_time is enabled in every state with every argument,   *)
(* a statement about last.ret covers every store, user, text and           *)
(* difficulty the specification reaches.                                   *)

\* the documents of the store in status scheduled with this user and description
ScheduledFor(store, user_id, subtask_desc) ==
    {i \in 1..Len(store) :
        /\ store[i].user_id = user_id
        /\ store[i].sub_task.description = subtask_desc
        /\ store[i].status = "scheduled"}

\* C1: a mark_complete call for which no document with that user and
\* description is in status scheduled (none exists, or it is completed
\* already) changes no document and raises nothing: a second call leaves the
\* first call's actual_time and the status completed in place.
C1_NoScheduledMatchIsNoOp ==
    [][(/\ last'.op = "mark_complete"
        /\ ScheduledFor(tasks, last'.user_id, last'.text) = {})
       => (tasks' = tasks /\ last'.ret.raised = "")]_vars

\* a second mark_complete, with another actual_time, met a completed document
\* and modified nothing
C1_Witness ==
    /\ last.op = "mark_complete"
    /\ last.matched = 0
    /\ \E i \in 1..Len(tasks) :
           /\ tasks[i].user_id = last.user_id
           /\ tasks[i].sub_task.description = last.text
           /\ tasks[i].status = "completed"
           /\ tasks[i].estimates.actual_time # last.actual_time
           /\ last.actual_time # None

\* the requests that have applied their update_one to document i
Writers(i) ==
    {th \in Threads : threads[th].pc = "returned" /\ threads[th].matched = i}

\* C2: of the concurrent mark_complete requests that target one scheduled
\* document, at most one updates it, whatever the interleaving: the document
\* is completed once and its actual_time is the value of that one request.
C2_AtMostOneCompletion ==
    \A i \in 1..Len(tasks) :
        /\ Cardinality(Writers(i)) <= 1
        /\ \A th \in Writers(i) :
               /\ tasks[i].status = "completed"
               /\ tasks[i].estimates.actual_time = threads[th].actual_time

\* two requests with different times were in flight for the one scheduled
\* document; both have run, the second one to enter won
C2_Witness ==
    /\ Len(tasks) = 1
    /\ threads[1].pc = "returned" /\ threads[2].pc = "returned"
    /\ threads[1].text = threads[2].text
    /\ threads[1].user_id = threads[2].user_id
    /\ threads[1].actual_time = Some(10) /\ threads[2].actual_time = Some(30)
    /\ threads[1].matched = 0 /\ threads[2].matched = 1
    /\ tasks[1].estimates.actual_time = Some(30)

\* C3: the status of every document follows scheduled -> completed: save_task
\* creates it scheduled with a null actual_time, the only change of status is
\* scheduled to completed, by mark_complete, and a completed document keeps
\* its status.
C3_StatusMachine ==
    [][/\ Len(tasks') >= Len(tasks)
       /\ \A i \in 1..Len(tasks) :
              \/ tasks'[i].status = tasks[i].status
              \/ /\ tasks[i].status = "scheduled"
                 /\ tasks'[i].status = "completed"
                 /\ last'.op = "mark_complete"
       /\ \A i \in (Len(tasks) + 1)..Len(tasks') :
              /\ last'.op = "save_task"
              /\ tasks'[i].status = "scheduled"
              /\ tasks'[i].estimates.actual_time = None]_vars

\* a document created by save_task was completed by mark_complete, and a
\* later predict_time ran over it
C3_Witness ==
    /\ last.op = "predict_time"
    /\ \E i \in 1..Len(tasks) : tasks[i].status = "completed"
    /\ \E i \in 1..Len(tasks) : tasks[i].status = "scheduled"

\* C4: after mark_complete(description, user, t) returns, no scheduled
\* document with that user and description remains (at most one existed).
C4_NoScheduledRemains ==
    last.op = "mark_complete" => ScheduledFor(tasks, last.user_id, last.text) = {}

\* C5: when the store fails to answer the find query, predict_time still
\* returns the cold-start estimate of the difficulty (cold_start, LOW), as if
\* the user had no history.
C5_ColdStartWhenFindFails ==
    (last.op = "predict_time" /\ ~last.store_ok)
        => last.ret = cold_result(last.difficulty)

\* C6: on every store that save_task and mark_complete can build, predict_time
\* returns for every user, text and difficulty and raises nothing; the sum of
\* similarities the warm path divides by is positive, each being >= 0.65.
C6_PredictNeverRaises ==
    last.op = "predict_time" =>
        LET similar == find_similar_tasks(tasks, last.text, last.user_id)
        IN  /\ last.ret.raised = ""
            /\ last.ret.method \in {"warm_start", "cold_start"}
            /\ last.ret.predicted_time # None
            /\ similar # <<>> => sum_similarity(similar) > 0

\* a warm prediction was made from two matches of different similarity
C6_Witness ==
    /\ last.op = "predict_time"
    /\ last.ret.method = "warm_start"
    /\ Len(last.ret.similar_tasks) = 2
    /\ last.ret.similar_tasks[1].similarity > last.ret.similar_tasks[2].similarity

\* the documents of a user that may serve a prediction
Eligible(store, user_id) ==
    {i \in 1..Len(store) :
        /\ store[i].user_id = user_id
        /\ store[i].status = "completed"
        /\ store[i].estimates.actual_time # None}

\* the similarity of a text to document i of the store
SimilarityTo(store, i, text) ==
    cosine_similarity(text_to_vector(text), store[i].sub_task.vector)

\* C7: every match find_similar_tasks returns comes from a document of that
\* user whose status is completed and whose actual_time is not null when the
\* search runs; a scheduled document, or one with a null actual_time, gives
\* no match.
C7_MatchesFromCompletedOnly ==
    last.op = "predict_time" =>
        LET similar == find_similar_tasks(tasks, last.text, last.user_id)
        IN  /\ last.ret.similar_tasks = similar
            /\ \A k \in 1..Len(similar) :
                   /\ similar[k].actual_time # None
                   /\ \E i \in Eligible(tasks, last.user_id) :
                          /\ similar[k].task_description
                                 = tasks[i].sub_task.description
                          /\ similar[k].actual_time = tasks[i].estimates.actual_time
                          /\ similar[k].similarity
                                 = SimilarityTo(tasks, i, last.text)

\* a prediction used one match while another document of the user, similar
\* enough to the text, was left out: it was completed with a null time
C7_Witness ==
    /\ last.op = "predict_time"
    /\ Len(last.ret.similar_tasks) = 1
    /\ \E i \in 1..Len(tasks) :
           /\ i \notin Eligible(tasks, last.user_id)
           /\ tasks[i].user_id = last.user_id
           /\ tasks[i].status = "completed"
           /\ SimilarityTo(tasks, i, last.text) >= threshold

\* the documents of one user, in store order
OnlyUser(store, user_id) ==
    SelectSeq(store, LAMBDA task : task.user_id = user_id)

\* C8: predict_time for a user depends on that user's documents only: it
\* returns on the store what it returns on the store without the other users'
\* documents, so two stores that agree on the user's documents give the same
\* method, predicted_time, confidence and similar_tasks.
C8_UserIsolation ==
    last.op = "predict_time" =>
        last.ret = predict_time(OnlyUser(tasks, last.user_id), last.text,
                                last.user_id, last.difficulty, TRUE)

\* a user got a cold prediction while another user's completed document
\* matches the text
C8_Witness ==
    /\ last.op = "predict_time"
    /\ last.ret.method = "cold_start"
    /\ \E v \in Users \ {last.user_id} :
           \E i \in Eligible(tasks, v) :
               SimilarityTo(tasks, i, last.text) >= threshold

\* C9: find_similar_tasks returns at most top_k (5) matches, each of
\* similarity >= threshold (0.65), for every text, user and store.
C9_AtMostTopKAboveThreshold ==
    \A u \in Users, x \in Texts :
        LET similar == find_similar_tasks(tasks, x, u)
        IN  /\ Len(similar) <= 5
            /\ \A k \in 1..Len(similar) : similar[k].similarity >= 65

\* more than top_k documents pass the threshold and the search returned
\* top_k; for another text every document is below the threshold
C9_Witness ==
    /\ last.op = "predict_time"
    /\ Len(last.ret.similar_tasks) = top_k
    /\ Cardinality({i \in Eligible(tasks, last.user_id) :
                       SimilarityTo(tasks, i, last.text) >= threshold}) > top_k
    /\ \E x \in Texts :
           /\ find_similar_tasks(tasks, x, last.user_id) = <<>>
           /\ \E i \in Eligible(tasks, last.user_id) :
                  SimilarityTo(tasks, i, x) > 0

\* C10: predict_time returns warm_start with HIGH and a non-empty
\* similar_tasks exactly when a document eligible for that user has
\* similarity >= threshold to the text, and cold_start with LOW and no
\* similar_tasks otherwise.
C10_MethodAndConfidence ==
    last.op = "predict_time" =>
        LET r == last.ret
            eligible == \E i \in Eligible(tasks, last.user_id) :
                            SimilarityTo(tasks, i, last.text) >= threshold
        IN  IF eligible
            THEN /\ r.method = "warm_start"
                 /\ r.confidence = "HIGH"
                 /\ r.similar_tasks # <<>>
            ELSE /\ r.method = "cold_start"
                 /\ r.confidence = "LOW"
                 /\ r.similar_tasks = <<>>

\* a warm prediction for one text of a user whose store gives a cold one for
\* another text
C10_Witness ==
    /\ last.op = "predict_time"
    /\ last.ret.method = "warm_start"
    /\ last.ret.confidence = "HIGH"
    /\ \E x \in Texts :
           predict_time(tasks, x, last.user_id, last.difficulty, TRUE).method
               = "cold_start"

----------------------------------------------------------------------------
(* Claims on the weighted average, the cold-start table, the HTTP          *)
(* interface, the difficulty resolution and the scoring functions.         *)

RECURSIVE SimilaritySum(_, _)
\* the sum over the first k matches of similarity (weighted: times actual_time)
SimilaritySum(k, weighted) ==
    IF k = 0 THEN 0
    ELSE SimilaritySum(k - 1, weighted)
         + calc.matches[k].similarity
           * (IF weighted THEN calc.matches[k].actual_time[1] ELSE 1)

Distance(a, b) == IF a >= b THEN a - b ELSE b - a

ExampleMatches ==
    <<[similarity |-> 80, actual_time |-> Some(10)],
      [similarity |-> 40, actual_time |-> Some(20)]>>

\* C11: warm_start_prediction returns the rounded similarity-weighted average
\* of the matches' actual times: an integer at most one half away from
\* sum(sim_i * actual_i) / sum(sim_i); for the matches (0.8, 10), (0.4, 20)
\* it returns 13.
C11_WeightedAverageRounded ==
    calc.op = "warm_start_prediction" =>
        LET total == SimilaritySum(Len(calc.matches), FALSE)
            weighted == SimilaritySum(Len(calc.matches), TRUE)
        IN  /\ calc.raised = ""
            /\ calc.out # None
            /\ 2 * Distance(calc.out[1] * total, weighted) <= total
            /\ calc.matches = ExampleMatches => calc.out = Some(13)

C11_Witness ==
    /\ calc.op = "warm_start_prediction"
    /\ calc.matches = ExampleMatches
    /\ calc.out = Some(13)

\* no completed task of the user is similar enough to the text of the call
NoSimilarHistory ==
    \A i \in Eligible(tasks, last.user_id) : SimilarityTo(tasks, i, last.text) < 65

\* the documented durations of the difficulties 1..5
TableDurations == <<10, 15, 20, 30, 45>>

\* C12: a prediction with no similar history is the cold-start one: its
\* method is cold_start, its confidence LOW, and its duration is 10, 15, 20,
\* 30, 45 for the difficulties 1..5 and 20 for any other difficulty; with no
\* history and difficulty 4 it is 30.
C12_ColdStartTable ==
    (last.op = "predict_time" /\ NoSimilarHistory) =>
        /\ last.ret.raised = ""
        /\ last.ret.method = "cold_start"
        /\ last.ret.confidence = "LOW"
        /\ last.ret.similar_tasks = <<>>
        /\ last.ret.predicted_time
               = Some(IF last.difficulty \in 1..5
                      THEN TableDurations[last.difficulty]
                      ELSE 20)
        /\ (tasks = <<>> /\ last.difficulty = 4) => last.ret.predicted_time = Some(30)

C12_Witness ==
    /\ last.op = "predict_time"
    /\ Eligible(tasks, last.user_id) = {}
    /\ last.difficulty = 4
    /\ last.ret.method = "cold_start"
    /\ last.ret.confidence = "LOW"
    /\ last.ret.predicted_time = Some(30)

\* a /predict request with a non-empty subtask and user_id and a difficulty
\* in 1..5
ValidPredictRequest ==
    /\ response.route = "/predict"
    /\ response.data.subtask # ""
    /\ response.data.user_id # ""
    /\ response.data.difficulty # None
    /\ response.data.difficulty[1] \in 1..5

\* C13: POST /predict with a non-empty subtask, a user_id and a difficulty in
\* 1..5 answers with the prediction predict_time(subtask, user_id,
\* difficulty) computes on the store, not with an error.
C13_PredictReturnsPrediction ==
    ValidPredictRequest =>
        /\ response.ret.status = 200
        /\ response.ret.error = ""
        /\ response.ret.predictions
               = <<predict_time(tasks, response.data.subtask, response.data.user_id,
                                response.data.difficulty[1], TRUE)>>

\* the subtasks of the batch request that have a name
NamedSubtasks == SelectSeq(response.data.subtasks, LAMBDA item : item.name # "")

\* no completed task of the requesting user is similar enough to any named
\* subtask of the batch
BatchWithoutSimilarHistory ==
    /\ response.route = "/predict-batch"
    /\ \A i \in Eligible(tasks, response.data.user_id) :
           \A k \in 1..Len(NamedSubtasks) :
               SimilarityTo(tasks, i, NamedSubtasks[k].name) < 65

\* C14: POST /predict-batch gives every subtask that has no similar history
\* the cold-start duration of main_task.difficulty, 3 when the request names
\* none: with difficulty 5 every such subtask gets 45.
C14_BatchUsesMainTaskDifficulty ==
    BatchWithoutSimilarHistory =>
        LET difficulty == IF response.data.main_task.difficulty = None
                          THEN 3
                          ELSE response.data.main_task.difficulty[1]
        IN  /\ response.ret.status = 200
            /\ Len(response.ret.predictions) = Len(NamedSubtasks)
            /\ \A k \in 1..Len(response.ret.predictions) :
                   /\ response.ret.predictions[k].method = "cold_start"
                   /\ response.ret.predictions[k].predicted_time
                          = Some(TableDurations[difficulty])

\* the classifier ran on the text of the run: the model was loaded, the
\* description is not blank and inference did not throw
ClassifierAnswered ==
    /\ main_run.done
    /\ main_run.loaded
    /\ strip(main_run.task_description) # ""
    /\ ~main_run.inference.throws

\* the scores of the classes Easy, Medium, Hard
ClassScores == <<1, 3, 5>>

\* C15: when the classifier answers, main's difficulty rating is the AI's
\* suggestion if the confidence is below 50 and the classifier's score (1, 3
\* or 5) if it is 50 or more.
C15_ConfidenceGate ==
    ClassifierAnswered =>
        /\ main_run.result.raised = ""
        /\ main_run.result.difficulty_rating
               = Some(IF main_run.inference.confidence < 50
                      THEN main_run.ai_suggested_difficulty
                      ELSE ClassScores[main_run.inference.class + 1])

\* C16: when the model was not loaded or inference throws, predict_difficulty
\* returns the fallback 3 and main goes on to a difficulty rating with no
\* exception raised.
C16_FallbackWithoutException ==
    (main_run.done /\ (~main_run.loaded \/ main_run.inference.throws)) =>
        /\ main_run.result.returned.items[1] = 3
        /\ main_run.result.raised = ""
        /\ main_run.result.difficulty_rating # None

\* C17: on every run of the difficulty step, whatever the text and the AI's
\* suggestion in 1..5, the difficulty rating is 1, 3 or 5.
C17_DifficultyInOneThreeFive ==
    main_run.done =>
        main_run.result.difficulty_rating \in {Some(1), Some(3), Some(5)}

\* C18: calculate_urgency_score of an integer days_left, negative ones
\* included, is 100 up to 1, 80 for 2..3, 60 for 4..7, 40 for 8..14 and 20
\* above 14, and no later deadline scores higher than an earlier one.
C18_UrgencyThresholds ==
    calc.op = "calculate_urgency_score" =>
        LET days_left == calc.args[1]
        IN  /\ days_left <= 1 => calc.out = Some(100)
            /\ days_left \in 2..3 => calc.out = Some(80)
            /\ days_left \in 4..7 => calc.out = Some(60)
            /\ days_left \in 8..14 => calc.out = Some(40)
            /\ days_left > 14 => calc.out = Some(20)
            /\ \A later \in days_left..DaysRange :
                   calculate_urgency_score(later) <= calc.out[1]

C18_Witness ==
    /\ calc.op = "calculate_urgency_score"
    /\ calc.args[1] < 0
    /\ calc.out = Some(100)

\* C19: for credits in 1..4 and weight in 0..100, with raw = credits *
\* weight / 100, calculate_impact_score is 100 from 2.0, 90 from 1.5, 75
\* from 1.0, 50 from 0.5, 10 below 0.2 and the integer part of raw * 50 from
\* 0.2 up to 0.5; every result is one of 10, 50, 75, 90, 100 or lies in
\* [0, 25).
C19_ImpactPiecewise ==
    calc.op = "calculate_impact_score" =>
        LET hundredths == calc.args[1] * calc.args[2]
            score == calc.out[1]
        IN  /\ hundredths >= 200 => score = 100
            /\ (150 <= hundredths /\ hundredths < 200) => score = 90
            /\ (100 <= hundredths /\ hundredths < 150) => score = 75
            /\ (50 <= hundredths /\ hundredths < 100) => score = 50
            /\ hundredths < 20 => score = 10
            /\ (20 <= hundredths /\ hundredths < 50) =>
                   /\ 2 * score <= hundredths
                   /\ hundredths < 2 * (score + 1)
            /\ \/ score \in {10, 50, 75, 90, 100}
               \/ (0 <= score /\ score < 25)

\* credits 3 and weight 13: raw 0.39, raw * 50 = 19.5, score 19
C19_Witness ==
    /\ calc.op = "calculate_impact_score"
    /\ calc.args = <<3, 13>>
    /\ calc.out = Some(19)

\* C20: calculate_impact_score does not decrease when credits * weight
\* grows: whatever was applied, every credits and weight in range with a
\* product at least as large score at least as high, and every pair with a
\* product at most as large at most as high.
C20_ImpactMonotone ==
    calc.op = "calculate_impact_score" =>
        \A credits \in 1..MaxCredits, weight_percentage \in 0..MaxWeight :
            /\ calc.args[1] * calc.args[2] <= credits * weight_percentage
                   => calc.out[1] <= calculate_impact_score(credits, weight_percentage)
            /\ credits * weight_percentage <= calc.args[1] * calc.args[2]
                   => calculate_impact_score(credits, weight_percentage) <= calc.out[1]

\* the score just under raw = 0.5, next to the 50 of raw = 0.5
C20_Witness ==
    /\ calc.op = "calculate_impact_score"
    /\ calc.args[1] * calc.args[2] = 49
    /\ calc.out = Some(24)
    /\ calculate_impact_score(1, 50) = 50

----------------------------------------------------------------------------
(* Claims on the priority label, the whole calculation, the learning loop  *)
(* and the frame of the estimator's operations.                            *)

\* C21: get_priority_label is High exactly from 70, Medium exactly from 40
\* up to but not including 70, Low exactly below 40: 70.0 is High, 69.9 is
\* Medium, 40.0 is Medium, 39.9 is Low (scores in tenths).
C21_LabelThresholds ==
    calc.op = "get_priority_label" =>
        LET final_score == calc.args[1]
            label == calc.tuple[1]
        IN  /\ label = "High" <=> final_score >= 700
            /\ label = "Medium" <=> (400 <= final_score /\ final_score < 700)
            /\ label = "Low" <=> final_score < 400
            /\ final_score = 700 => label = "High"
            /\ final_score = 699 => label = "Medium"
            /\ final_score = 400 => label = "Medium"
            /\ final_score = 399 => label = "Low"

C21_Witness ==
    /\ calc.op = "get_priority_label"
    /\ calc.args = <<700>>
    /\ calc.tuple = <<"High">>

\* C22: validate_mcdm_calculation(days_left, credits, weight, rating) returns
\* the urgency of days_left, the impact of credits and weight, rating * 20,
\* the sum 0.5 * urgency + 0.3 * impact + 0.2 * difficulty (in tenths) and
\* the label of that sum; for (1, 4, 100, 5) it returns (100, 100, 100,
\* 100.0, High).
C22_ValidateComposition ==
    calc.op = "validate_mcdm_calculation" =>
        LET t == calc.tuple
        IN  /\ Len(t) = 5
            /\ t[1] = calculate_urgency_score(calc.args[1])
            /\ t[2] = calculate_impact_score(calc.args[2], calc.args[3])
            /\ t[3] = calc.args[4] * 20
            /\ t[4] = (5 * t[1]) + (3 * t[2]) + (2 * t[3])
            /\ t[5] = (IF t[4] >= 700 THEN "High"
                       ELSE IF t[4] >= 400 THEN "Medium" ELSE "Low")
            /\ calc.args = <<1, 4, 100, 5>> => t = <<100, 100, 100, 1000, "High">>

C22_Witness ==
    /\ calc.op = "validate_mcdm_calculation"
    /\ calc.args = <<1, 4, 100, 5>>
    /\ calc.tuple = <<100, 100, 100, 1000, "High">>

\* C30: for credits in 1..4, weight in 0..100, a rating in 1..5 and any
\* days_left, the final score lies in [17, 100]; with days_left > 14 the
\* label is never High and with days_left <= 1 it is never Low.
C30_FinalScoreRange ==
    calc.op = "validate_mcdm_calculation" =>
        /\ 170 <= calc.tuple[4]
        /\ calc.tuple[4] <= 1000
        /\ calc.args[1] > 14 => calc.tuple[5] # "High"
        /\ calc.args[1] <= 1 => calc.tuple[5] # "Low"

\* the highest score a deadline more than 14 days away can reach: 60.0
C30_Witness ==
    /\ calc.op = "validate_mcdm_calculation"
    /\ calc.args[1] > 14
    /\ calc.tuple[4] = 600
    /\ calc.tuple[5] = "Medium"

\* the positions of the records of the user with that description that
\* mark_complete completed with a non-null time
CompletedWithTime(store, user_id, description) ==
    {i \in Eligible(store, user_id) : store[i].sub_task.description = description}

\* C23: once a subtask saved for a user was completed with a non-null time,
\* every predict_time for the same text and user returns warm_start,
\* whatever the difficulty and whatever calls came in between: the
\* prediction is warm_start whenever such a record is in the store, and no
\* call takes such a record away.
C23_LearningLoop ==
    /\ [](last.op = "predict_time"
            /\ CompletedWithTime(tasks, last.user_id, last.text) # {}
          => last.ret.raised = "" /\ last.ret.method = "warm_start")
    /\ [][\A u \in Users, x \in Texts :
              CompletedWithTime(tasks, u, x) \subseteq CompletedWithTime(tasks', u, x)]_vars

\* a warm prediction for a completed text after a further save_task
C23_Witness ==
    /\ last.op = "predict_time"
    /\ last.ret.method = "warm_start"
    /\ \E i \in CompletedWithTime(tasks, last.user_id, last.text) :
           \E j \in (i + 1)..Len(tasks) : tasks[j].status = "scheduled"

\* C24: predict_time and find_similar_tasks only read: no step of a
\* prediction changes the store, and every prediction that returns, however
\* it was interleaved with the predictions of the same or another user,
\* returns what predict_time gives on that store when run alone.
C24_PredictReadOnly ==
    /\ [](last.op = "predict_time"
          => last.ret = predict_time(tasks, last.text, last.user_id,
                                     last.difficulty, TRUE))
    /\ [][readers' # readers => tasks' = tasks]_vars

\* a warm prediction returned while another user's prediction was in flight
C24_Witness ==
    /\ last.op = "predict_time"
    /\ last.ret.method = "warm_start"
    /\ \E r \in Readers :
           /\ readers[r].pc = "searched"
           /\ readers[r].user_id # last.user_id

\* the fields of a record that save_task writes and nothing may change
CreatedFields(task) ==
    <<task.user_id, task.sub_task.description, task.sub_task.vector,
      task.estimates.prediction_method, task.estimates.system_estimate,
      task.estimates.user_estimate, task.estimates.confidence>>

\* a record with the three fields of mark_complete's $set blanked
WithoutCompletion(task) ==
    [task EXCEPT !.estimates.actual_time = None, !.status = "",
                 !.completed_date = None]

\* C25: no operation removes a record or changes the user_id, description,
\* vector, prediction_method, system_estimate, user_estimate or confidence
\* save_task gave it; a mark_complete call changes at most the one record it
\* matched, and of that record only estimates.actual_time, status and
\* completed_date.
C25_CreatedFieldsFrozen ==
    [][/\ Len(tasks') >= Len(tasks)
       /\ \A i \in 1..Len(tasks) : CreatedFields(tasks'[i]) = CreatedFields(tasks[i])
       /\ last'.op = "mark_complete" =>
              /\ Len(tasks') = Len(tasks)
              /\ \A i \in 1..Len(tasks) :
                     /\ WithoutCompletion(tasks'[i]) = WithoutCompletion(tasks[i])
                     /\ tasks'[i] # tasks[i] => i = last'.matched]_vars

\* mark_complete completed one record with a time other than its estimate
\* and left a scheduled one beside it
C25_Witness ==
    /\ last.op = "mark_complete"
    /\ last.matched > 0
    /\ tasks[last.matched].status = "completed"
    /\ tasks[last.matched].estimates.actual_time
           # Some(tasks[last.matched].estimates.system_estimate)
    /\ tasks[last.matched].estimates.actual_time # None
    /\ \E j \in 1..Len(tasks) : tasks[j].status = "scheduled"

\* the records of the user of the last call that are eligible and at least
\* 0.65 similar to its text
Passing ==
    {i \in Eligible(tasks, last.user_id) : SimilarityTo(tasks, i, last.text) >= 65}

\* C26: the matches of a search are in descending order of similarity, there
\* are min(top_k, number of eligible records at or above the threshold) of
\* them, and they are the best: every eligible record more similar than the
\* last match returned is among the matches.
C26_SortedBestMatches ==
    last.op = "predict_time" =>
        LET similar == last.ret.similar_tasks
            n == Len(similar)
        IN  /\ \A k \in 1..(n - 1) : similar[k].similarity >= similar[k + 1].similarity
            /\ n = (IF Cardinality(Passing) < 5 THEN Cardinality(Passing) ELSE 5)
            /\ \A i \in Passing :
                   SimilarityTo(tasks, i, last.text) > similar[n].similarity =>
                       Cardinality({k \in 1..n :
                           similar[k].similarity = SimilarityTo(tasks, i, last.text)})
                       = Cardinality({j \in Passing :
                           SimilarityTo(tasks, j, last.text)
                               = SimilarityTo(tasks, i, last.text)})

\* six records pass, the less similar ones stored first; the five returned
\* hold every record of similarity 1.0 and leave a less similar one out
C26_Witness ==
    /\ last.op = "predict_time"
    /\ Cardinality(Passing) > 5
    /\ Len(last.ret.similar_tasks) = 5
    /\ SimilarityTo(tasks, 1, last.text) < 100
    /\ last.ret.similar_tasks[1].similarity = 100
    /\ last.ret.similar_tasks[5].similarity < 100

\* C27: after any save_task and mark_complete calls, whatever actual_time
\* the callers gave, every completed record has a non-null actual_time, and
\* no prediction is handed a match whose actual_time is null.
C27_CompletedHasActualTime ==
    /\ \A i \in 1..Len(tasks) :
           tasks[i].status = "completed" => tasks[i].estimates.actual_time # None
    /\ last.op = "predict_time" =>
           \A k \in 1..Len(last.ret.similar_tasks) :
               last.ret.similar_tasks[k].actual_time # None

\* C28: a warm-start predicted_time lies between the least and the greatest
\* actual_time of the matches it is computed from.
C28_WarmWithinHistory ==
    (last.op = "predict_time" /\ last.ret.method = "warm_start") =>
        LET similar == last.ret.similar_tasks
            predicted_time == last.ret.predicted_time[1]
        IN  /\ similar # <<>>
            /\ \E k \in 1..Len(similar) : similar[k].actual_time[1] <= predicted_time
            /\ \E k \in 1..Len(similar) : predicted_time <= similar[k].actual_time[1]

\* matches of different times and similarities, and a prediction strictly
\* between the times
C28_Witness ==
    /\ last.op = "predict_time"
    /\ last.ret.method = "warm_start"
    /\ \E k, l \in 1..Len(last.ret.similar_tasks) :
           /\ last.ret.similar_tasks[k].similarity
                  # last.ret.similar_tasks[l].similarity
           /\ last.ret.similar_tasks[k].actual_time[1] < last.ret.predicted_time[1]
           /\ last.ret.predicted_time[1] < last.ret.similar_tasks[l].actual_time[1]

\* predict_time on the store returns warm_start for the text and the user
WarmFor(store, text, user_id, difficulty) ==
    predict_time(store, text, user_id, difficulty, TRUE).method = "warm_start"

\* C29: once predict_time returns warm_start for a text and a user it does
\* so ever after: whichever call of whichever user comes next, a store on
\* which the prediction is warm_start is followed by one on which it is
\* warm_start too, for every difficulty (a call that leaves the store as it
\* is leaves every prediction as it is).
C29_WarmStartStable ==
    [][tasks' # tasks =>
           \A u \in Users, x \in Texts, d \in Difficulties :
               WarmFor(tasks, x, u, d) => WarmFor(tasks', x, u, d)]_vars

\* a warm prediction on a store to which another user added a record after
\* the record it rests on
C29_Witness ==
    /\ last.op = "predict_time"
    /\ last.ret.method = "warm_start"
    /\ \E i \in Passing :
           \E j \in (i + 1)..Len(tasks) : tasks[j].user_id # last.user_id

====
